---- MODULE Spec2Model ----
(***************************************************************************)
(* Operator construction in core/src/types/operator/builder.rs:           *)
(* Operator::new / from_map / via_map, OperatorBuilder::new / layer /     *)
(* finish, the dynamic Operator::layer and the lazily created shared      *)
(* tokio runtime RUNTIME.                                                  *)
(*                                                                         *)
(* An accessor is modelled by its layer stack, a sequence of layer names  *)
(* read from the innermost layer (index 1, directly above the backend     *)
(* instance) to the outermost, together with the identity of the backend  *)
(* instance the stack wraps.                                               *)
(***************************************************************************)
EXTENDS Naturals, Sequences, FiniteSets

\* ------------------------------------------------------------ bounds
\* user layers applied with OperatorBuilder::layer, over all live values
MaxLayers == 2
\* user layers applied with Operator::layer, over all live values
MaxDyn == 2

\* ------------------------------------------------------------ domains
Threads == {"t1", "t2"}

\* Schemes that have an arm in via_map's match (each behind a feature),
\* and one that never has (Scheme::Custom).
Known == {"fs", "memory"}
Schemes == Known \cup {"custom"}

\* Configuration maps HashMap<String, String>, as sets of <<key, value>>.
Maps == { {}, {<<"root", "/tmp">>}, {<<"root", "rel">>} }

\* Test layers a caller applies:
\*   "L1" delegates every call unchanged,
\*   "F"  fails every call with its own kind without calling inward,
\*   "G"  calls inward, then fails the call with its own kind, keeping the
\*        context of the failure it received.
UserLayers == {"L1", "F", "G"}
Failing == {"F", "G"}

\* Identities for backend instances: one for every value that can be alive
\* at a time (one per thread, and the clone kept aside).
Insts == 1..(Cardinality(Threads) + 1)

Key == "test"
Ops == {"write", "read"}

VARIABLES
    enabled,   \* the schemes whose feature is compiled in (fixed per build)
    cur,       \* cur[t]: the value thread t holds (builder, operator, error)
    kept,      \* an Operator clone any thread may use
    kin,       \* the threads whose cur comes from the same finish() as kept
    pc,        \* pc[t]: where thread t stands inside finish()
    current,   \* current[t]: the thread's current tokio handle (thread-local)
    handle,    \* handle[t]: the local `runtime` of finish()
    saved,     \* saved[t]: what the EnterGuard `_guard` restores on drop
    RUNTIME,   \* state of the Lazy<Runtime> static
    created,   \* number of shared runtimes the Lazy initialiser has built
    store      \* store[i]: the keys written to backend instance i

vars == <<enabled, cur, kept, kin, pc, current, handle, saved, RUNTIME,
          created, store>>

\* ------------------------------------------------------------ values
\* One shape for everything a thread can hold.  stack/inst/ekind/ectx are
\* the value itself; the other fields record the calls that produced it:
\* users, the layers given to OperatorBuilder::layer; dyn, the layers the
\* caller gave to Operator::layer; built, whether Builder::build ran; and,
\* on a failure, call and scheme: the call that returned it and its backend.
\* A builder inside the finish() that via_map calls records that call too,
\* until via_map returns.
NoVal ==
    [kind |-> "none", stack |-> <<>>, inst |-> 0, ekind |-> "", ectx |-> {},
     users |-> <<>>, dyn |-> <<>>, call |-> "", scheme |-> "", built |-> FALSE]

\* Err(Error::new(kind, ..).with_context(..))
Failure(kind, ctx, built) ==
    [NoVal EXCEPT !.kind = "err", !.ekind = kind, !.ectx = ctx, !.built = built]

\* ------------------------------------------------------------ Builder
\* Builder::build of backend B on configuration m: the fs backend needs an
\* absolute root, the memory backend accepts every map.
BuildOk(B, m) == B = "memory" \/ <<"root", "/tmp">> \in m

\* ------------------------------------------------------------ OperatorBuilder
\* OperatorBuilder::layer applied inside instead of outside (faulty variant)
OperatorBuilder_layer_inside(ob, L) == [ob EXCEPT !.stack = <<L>> \o @]

\* OperatorBuilder::layer: accessor: layer.layer(self.accessor)
OperatorBuilder_layer(ob, L) == [ob EXCEPT !.stack = Append(@, L)]

\* OperatorBuilder::new without the completeness layer (faulty variant)
OperatorBuilder_new_no_complete(id) ==
    OperatorBuilder_layer(
        [NoVal EXCEPT !.kind = "builder", !.inst = id, !.built = TRUE],
        "ErrorContext")

\* OperatorBuilder::new(acc): OperatorBuilder { accessor }
\*     .layer(ErrorContextLayer).layer(CompleteLayer)
OperatorBuilder_new(id) ==
    OperatorBuilder_layer(
        OperatorBuilder_layer(
            [NoVal EXCEPT !.kind = "builder", !.inst = id, !.built = TRUE],
            "ErrorContext"),
        "Complete")

\* ------------------------------------------------------------ Operator
\* Operator::new(ab): let acc = ab.build()?; Ok(OperatorBuilder::new(acc))
\* ab is a builder of backend B holding configuration m; id is the identity
\* of the instance build() creates.
Operator_new(B, m, id) ==
    IF BuildOk(B, m)
    THEN OperatorBuilder_new(id)
    ELSE Failure("ConfigInvalid", {}, TRUE)

\* Operator::from_map::<B>(map): B::from_map(map).build()?, then
\* OperatorBuilder::new(acc)
Operator_from_map(B, m, id) ==
    IF BuildOk(B, m)
    THEN OperatorBuilder_new(id)
    ELSE Failure("ConfigInvalid", {}, TRUE)

\* Operator::layer that leaves out the erasure (faulty variant)
Operator_layer_unerased(op, L) == [op EXCEPT !.stack = Append(@, L)]

\* Operator::layer that wraps a copy of the instance (faulty variant)
Operator_layer_copy(op, L) ==
    [op EXCEPT !.stack = @ \o <<L, "TypeErase">>,
               !.inst = IF @ = 0 THEN 0 ELSE (@ % Cardinality(Insts)) + 1]

\* Operator::layer that erases the operator once more before wrapping it
\* (faulty variant)
Operator_layer_twice(op, L) ==
    [op EXCEPT !.stack = @ \o <<"TypeErase", L, "TypeErase">>]

\* Operator::layer(self, layer):
\*   from_inner(Arc::new(TypeEraseLayer.layer(layer.layer(self.into_inner()))))
Operator_layer(op, L) == [op EXCEPT !.stack = @ \o <<L, "TypeErase">>]

\* Operator::from_inner(Arc::new(ob.accessor) as FusedAccessor)
Operator_from_inner(ob) == [ob EXCEPT !.kind = "operator"]

\* via_map whose every arm names the Memory builder (faulty variant)
ArmBuilder_memory(s) == "memory"

\* via_map, arm `Scheme::Fs => Self::from_map::<services::Fs>(map)?.finish()`
\* and its like: the Builder the arm of scheme s names
ArmBuilder(s) == s

\* the fallback arm of via_map without its context (faulty variant)
UnsupportedScheme_no_context(v) == Failure("Unsupported", {}, FALSE)

\* via_map, arm `v => return Err(Error::new(ErrorKind::Unsupported, ..)
\*     .with_context("scheme", v))`
UnsupportedScheme(v) == Failure("Unsupported", {<<"scheme", v>>}, FALSE)

\* ------------------------------------------------------------ finish, local parts
\* let ob = self.layer(TypeEraseLayer)
FinishErase(ob) == OperatorBuilder_layer(ob, "TypeErase")

\* the tail of finish with the two outer layers exchanged (faulty variant)
FinishWrap_logging_first(ob) ==
    Operator_layer(Operator_layer(Operator_from_inner(ob), "Logging"), "Blocking")

\* Operator::from_inner(..).layer(BlockingLayer::create().unwrap())
\*     .layer(LoggingLayer::default())
FinishWrap(ob) ==
    Operator_layer(Operator_layer(Operator_from_inner(ob), "Blocking"), "Logging")

\* Handle::try_current().unwrap_or(RUNTIME.handle().clone()) (faulty variant: eager)
NeedsShared_eager(c) == TRUE

\* the test of unwrap_or_else inverted (faulty variant)
NeedsShared_inverted(c) == c # "none"

\* Handle::try_current().unwrap_or_else(|_| RUNTIME.handle().clone()):
\* the closure, and with it the Lazy, is touched only when try_current
\* fails, that is when the thread has no current handle.
NeedsShared(c) == c = "none"

\* the handle finish() ends up with
Resolved(c) == IF c = "none" THEN "shared" ELSE c

\* `let _ = runtime.enter()`: the guard is dropped at once and the thread's
\* current handle goes back to what it was (faulty variant)
Entered_dropped(c, h) == c

\* let _guard = runtime.enter(): the thread's current handle while _guard
\* lives, c being the current handle before and h the handle entered
Entered(c, h) == h

\* the guard forgotten instead of dropped: the thread stays entered
\* (faulty variant)
GuardDrop_leaked(c, s) == c

\* `_guard` goes out of scope when finish() returns: the thread's current
\* handle, c, is set back to s, the one the guard saved when it was made
GuardDrop(c, s) == s

\* a Lazy whose initialiser may run while another runs (faulty variant)
LazyMayInit_racy(s) == s \in {"uninit", "running"}

\* Lazy::new(..): the initialiser runs once, for the first thread that
\* finds the cell empty; every other thread waits for it.
LazyMayInit(s) == s = "uninit"

\* BlockingLayer::create() is Ok only when the thread has a current handle
BlockingCreateOk(c) == c # "none"

\* the handle the blocking bridge keeps, on which it drives the operations
\* a synchronous caller invokes: the thread's current handle at create()
BlockingCreate(c) == c

\* ------------------------------------------------------------ operations
\* What one operation invoked on the accessor with layer stack `stack`
\* returns: Eval(stack, n, op, has) is the call entering layer n (0: the
\* backend), `has` telling whether Key was written to the instance.
\*   ok, kind, ctx: the result, a failure's kind and its context
\*   seen:          the layers the call passed through
\*   wrote:         the call wrote Key to the backend instance
KindOf(L) == IF L = "F" THEN "Unexpected" ELSE "PermissionDenied"

RECURSIVE Eval(_, _, _, _)
Eval(stack, n, op, has) ==
    IF n = 0
    THEN IF op = "write" \/ has
         THEN [ok |-> TRUE, kind |-> "", ctx |-> {}, seen |-> {}, wrote |-> op = "write"]
         ELSE [ok |-> FALSE, kind |-> "NotFound", ctx |-> {}, seen |-> {}, wrote |-> FALSE]
    ELSE IF stack[n] = "F"
    THEN [ok |-> FALSE, kind |-> KindOf("F"), ctx |-> {<<"layer", "F">>},
          seen |-> {"F"}, wrote |-> FALSE]
    ELSE LET r == Eval(stack, n - 1, op, has)
             s == [r EXCEPT !.seen = @ \cup {stack[n]}]
         IN  CASE stack[n] = "ErrorContext" ->
                    IF r.ok THEN s
                    ELSE [s EXCEPT !.ctx = @ \cup {<<"operation", op>>, <<"path", Key>>}]
               [] stack[n] = "G" ->
                    [s EXCEPT !.ok = FALSE, !.kind = KindOf("G"),
                              !.ctx = @ \cup {<<"layer", "G">>}]
               [] OTHER -> s

Invoke(o, op, st) == Eval(o.stack, Len(o.stack), op, Key \in st[o.inst])

\* ------------------------------------------------------------ bookkeeping
RECURSIVE SumOver(_, _)
SumOver(S, f) ==
    IF S = {} THEN 0
    ELSE LET x == CHOOSE y \in S : TRUE IN Len(f[x]) + SumOver(S \ {x}, f)

TotalUsers == SumOver(Threads, [t \in Threads |-> cur[t].users]) + Len(kept.users)
TotalDyn == SumOver(Threads, [t \in Threads |-> cur[t].dyn]) + Len(kept.dyn)

\* the backend instances some live value refers to
Live == ({cur[t].inst : t \in Threads} \cup {kept.inst}) \ {0}
Free == Insts \ Live
Fresh == CHOOSE i \in Free : \A j \in Free : i <= j

\* An instance is destroyed when the last value referring to it is dropped.
Clean(st, c, k) ==
    [i \in Insts |->
        IF i \in {c[t].inst : t \in Threads} \cup {k.inst} THEN st[i] ELSE {}]

Idle(t) == pc[t] = "idle"
Empty(t) == Idle(t) /\ cur[t].kind = "none"

TypeOK ==
    /\ enabled \subseteq Known
    /\ kin \subseteq Threads
    /\ pc \in [Threads -> {"idle", "force", "initing", "entered", "panicked"}]
    /\ current \in [Threads -> {"none", "ambient", "shared"}]
    /\ handle \in [Threads -> {"none", "ambient", "shared"}]
    /\ saved \in [Threads -> {"none", "ambient", "shared"}]
    /\ RUNTIME \in {"uninit", "running", "init", "poisoned"}
    /\ created \in 0..Cardinality(Threads)
    /\ store \in [Insts -> SUBSET {Key}]
    /\ \A t \in Threads : cur[t].kind \in {"none", "builder", "operator", "err"}
    /\ kept.kind \in {"none", "operator"}

Init ==
    /\ enabled \in SUBSET Known
    /\ cur = [t \in Threads |-> NoVal]
    /\ kept = NoVal
    /\ kin = {}
    /\ pc = [t \in Threads |-> "idle"]
    /\ current = [t \in Threads |-> "none"]
    /\ handle = [t \in Threads |-> "none"]
    /\ saved = [t \in Threads |-> "none"]
    /\ RUNTIME = "uninit"
    /\ created = 0
    /\ store = [i \in Insts |-> {}]

\* ------------------------------------------------------------ the calling context
\* The thread starts running inside a tokio runtime of the caller's
\* (#[tokio::main], Runtime::block_on) ...
AsyncEnter(t) ==
    /\ Idle(t) /\ current[t] = "none"
    /\ current' = [current EXCEPT ![t] = "ambient"]
    /\ UNCHANGED <<enabled, cur, kept, kin, pc, handle, saved, RUNTIME, created, store>>

\* ... and leaves it.
AsyncExit(t) ==
    /\ Idle(t) /\ current[t] = "ambient"
    /\ current' = [current EXCEPT ![t] = "none"]
    /\ UNCHANGED <<enabled, cur, kept, kin, pc, handle, saved, RUNTIME, created, store>>

\* ------------------------------------------------------------ construction
\* The constructing call `call` for backend B returned r to thread t; a
\* built instance starts empty.
From(r, call, B) == IF r.kind = "err" THEN [r EXCEPT !.call = call, !.scheme = B] ELSE r

Returned(t, r) ==
    /\ cur' = [cur EXCEPT ![t] = r]
    /\ kin' = kin \ {t}
    /\ store' = IF r.inst # 0 THEN [store EXCEPT ![r.inst] = {}] ELSE store

New(t, B, m) ==
    /\ Empty(t)
    /\ Returned(t, From(Operator_new(B, m, Fresh), "new", B))
    /\ UNCHANGED <<enabled, kept, pc, current, handle, saved, RUNTIME, created>>

FromMap(t, B, m) ==
    /\ Empty(t)
    /\ Returned(t, From(Operator_from_map(B, m, Fresh), "from_map", B))
    /\ UNCHANGED <<enabled, kept, pc, current, handle, saved, RUNTIME, created>>

\* OperatorBuilder::layer(L) on the builder thread t holds
Layer(t, L) ==
    /\ Idle(t) /\ cur[t].kind = "builder" /\ TotalUsers < MaxLayers
    /\ cur' = [cur EXCEPT ![t] = [OperatorBuilder_layer(@, L) EXCEPT !.users = Append(@, L)]]
    /\ UNCHANGED <<enabled, kept, kin, pc, current, handle, saved, RUNTIME, created, store>>

\* Operator::layer(L) on the operator thread t holds
DynLayer(t, L) ==
    /\ Idle(t) /\ cur[t].kind = "operator" /\ TotalDyn < MaxDyn
    /\ cur' = [cur EXCEPT ![t] = [Operator_layer(@, L) EXCEPT !.dyn = Append(@, L)]]
    /\ UNCHANGED <<enabled, kept, kin, pc, current, handle, saved, RUNTIME, created, store>>

\* ------------------------------------------------------------ finish
\* finish() up to the point where it needs the shared runtime: the erasure
\* and Handle::try_current().  With an ambient handle it goes on to
\* `let _guard = runtime.enter()`; without one it has to force RUNTIME.
Begin(t, ob) ==
    /\ cur' = [cur EXCEPT ![t] = FinishErase(ob)]
    /\ IF NeedsShared(current[t])
       THEN /\ pc' = [pc EXCEPT ![t] = "force"]
            /\ UNCHANGED <<current, handle, saved>>
       ELSE /\ pc' = [pc EXCEPT ![t] = "entered"]
            /\ handle' = [handle EXCEPT ![t] = current[t]]
            /\ saved' = [saved EXCEPT ![t] = current[t]]
            /\ current' = [current EXCEPT ![t] = Entered(current[t], current[t])]

\* RUNTIME.handle().clone() returned; let _guard = runtime.enter()
Enter(t) ==
    /\ pc' = [pc EXCEPT ![t] = "entered"]
    /\ handle' = [handle EXCEPT ![t] = Resolved(current[t])]
    /\ saved' = [saved EXCEPT ![t] = current[t]]
    /\ current' = [current EXCEPT ![t] = Entered(current[t], Resolved(current[t]))]

\* a panic unwinds the thread: what it held is dropped
Panic(t) ==
    /\ pc' = [pc EXCEPT ![t] = "panicked"]
    /\ cur' = [cur EXCEPT ![t] = NoVal]
    /\ kin' = kin \ {t}
    /\ handle' = [handle EXCEPT ![t] = "none"]
    /\ saved' = [saved EXCEPT ![t] = "none"]
    /\ current' = [current EXCEPT ![t] = saved[t]]
    /\ store' = Clean(store, [cur EXCEPT ![t] = NoVal], kept)

Finish(t) ==
    /\ Idle(t) /\ cur[t].kind = "builder"
    /\ Begin(t, cur[t])
    /\ UNCHANGED <<enabled, kept, kin, RUNTIME, created, store>>

\* Operator::via_map(scheme, map)
ViaMap(t, s, m) ==
    /\ Empty(t)
    /\ IF s \notin enabled
       THEN /\ Returned(t, From(UnsupportedScheme(s), "via_map", s))
            /\ UNCHANGED <<pc, current, handle, saved>>
       ELSE /\ LET r == From(Operator_from_map(ArmBuilder(s), m, Fresh), "via_map", s)
               IN  IF r.kind = "err"
                   THEN /\ Returned(t, r)
                        /\ UNCHANGED <<pc, current, handle, saved>>
                   ELSE /\ Begin(t, [r EXCEPT !.call = "via_map"])
                        /\ kin' = kin \ {t}
                        /\ store' = [store EXCEPT ![r.inst] = {}]
    /\ UNCHANGED <<enabled, kept, RUNTIME, created>>

\* The first thread to find the Lazy empty starts its initialiser.
LazyStart(t) ==
    /\ pc[t] = "force" /\ LazyMayInit(RUNTIME)
    /\ RUNTIME' = "running"
    /\ pc' = [pc EXCEPT ![t] = "initing"]
    /\ UNCHANGED <<enabled, cur, kept, kin, current, handle, saved, created, store>>

\* tokio::runtime::Builder::new_multi_thread().enable_all().build().unwrap():
\* build() returns an io::Result; on Err the unwrap panics inside the
\* initialiser and the Lazy stays poisoned.
LazyDone(t) ==
    /\ pc[t] = "initing"
    /\ \E ok \in BOOLEAN :
        IF ok
        THEN /\ RUNTIME' = "init"
             /\ created' = created + 1
             /\ Enter(t)
             /\ UNCHANGED <<cur, kin, store>>
        ELSE /\ RUNTIME' = "poisoned"
             /\ Panic(t)
             /\ UNCHANGED created
    /\ UNCHANGED <<enabled, kept>>

\* The Lazy is initialised: deref returns the runtime.
LazyGet(t) ==
    /\ pc[t] = "force" /\ RUNTIME = "init"
    /\ Enter(t)
    /\ UNCHANGED <<enabled, cur, kept, kin, RUNTIME, created, store>>

\* "Lazy instance has previously been poisoned"
LazyPoisoned(t) ==
    /\ pc[t] = "force" /\ RUNTIME = "poisoned"
    /\ Panic(t)
    /\ UNCHANGED <<enabled, kept, RUNTIME, created>>

\* The rest of finish(): BlockingLayer::create().unwrap(), the two outer
\* layers, and the drop of _guard on return.
FinishEnd(t) ==
    /\ pc[t] = "entered"
    /\ IF BlockingCreateOk(current[t])
       THEN /\ cur' = [cur EXCEPT ![t] = [FinishWrap(@) EXCEPT !.call = ""]]
            /\ pc' = [pc EXCEPT ![t] = "idle"]
            /\ current' = [current EXCEPT ![t] = GuardDrop(current[t], saved[t])]
            /\ handle' = [handle EXCEPT ![t] = "none"]
            /\ saved' = [saved EXCEPT ![t] = "none"]
            /\ UNCHANGED <<kin, store>>
       ELSE Panic(t)
    /\ UNCHANGED <<enabled, kept, RUNTIME, created>>

\* ------------------------------------------------------------ using an Operator
\* Operator: Clone, a reference-count increment on the shared accessor
CloneOf(op) == op

\* kept = cur[t].clone()
Clone(t) ==
    /\ Idle(t) /\ cur[t].kind = "operator" /\ kept.kind = "none"
    /\ TotalUsers + Len(cur[t].users) <= MaxLayers
    /\ TotalDyn + Len(cur[t].dyn) <= MaxDyn
    /\ kept' = CloneOf(cur[t])
    /\ kin' = {t}
    /\ UNCHANGED <<enabled, cur, pc, current, handle, saved, RUNTIME, created, store>>

\* cur[t] = kept.clone()
Take(t) ==
    /\ Empty(t) /\ kept.kind = "operator"
    /\ TotalUsers + Len(kept.users) <= MaxLayers
    /\ TotalDyn + Len(kept.dyn) <= MaxDyn
    /\ cur' = [cur EXCEPT ![t] = CloneOf(kept)]
    /\ kin' = kin \cup {t}
    /\ UNCHANGED <<enabled, kept, pc, current, handle, saved, RUNTIME, created, store>>

\* the value thread t holds goes out of scope
Drop(t) ==
    /\ Idle(t) /\ cur[t].kind # "none"
    /\ cur' = [cur EXCEPT ![t] = NoVal]
    /\ kin' = kin \ {t}
    /\ store' = Clean(store, cur', kept)
    /\ UNCHANGED <<enabled, kept, pc, current, handle, saved, RUNTIME, created>>

\* the clone kept aside goes out of scope
DropKept ==
    /\ kept.kind # "none"
    /\ kept' = NoVal
    /\ kin' = {}
    /\ store' = Clean(store, cur, kept')
    /\ UNCHANGED <<enabled, cur, pc, current, handle, saved, RUNTIME, created>>

\* Thread t invokes op on Key through the operator it holds or through kept;
\* the call returns Invoke(o, op, store) and a write that reaches the backend
\* instance is kept there.
Call(t, via, op) ==
    /\ Idle(t)
    /\ LET o == IF via = "cur" THEN cur[t] ELSE kept
           r == Invoke(o, op, store)
       IN  /\ o.kind = "operator"
           /\ store' = IF r.wrote THEN [store EXCEPT ![o.inst] = @ \cup {Key}] ELSE store
    /\ UNCHANGED <<enabled, cur, kept, kin, pc, current, handle, saved, RUNTIME, created>>

\* One synchronous or asynchronous caller composing operators and using them.
Main == "t1"

Next ==
    \/ AsyncEnter(Main)
    \/ AsyncExit(Main)
    \/ \E B \in enabled, m \in Maps : New(Main, B, m)
    \/ \E B \in enabled, m \in Maps : FromMap(Main, B, m)
    \/ \E s \in Schemes, m \in Maps : ViaMap(Main, s, m)
    \/ \E L \in UserLayers : Layer(Main, L)
    \/ Finish(Main)
    \/ LazyStart(Main)
    \/ LazyDone(Main)
    \/ LazyGet(Main)
    \/ FinishEnd(Main)
    \/ \E L \in UserLayers : DynLayer(Main, L)
    \/ Clone(Main)
    \/ Take(Main)
    \/ Drop(Main)
    \/ DropKept
    \/ \E via \in {"cur", "kept"}, op \in Ops : Call(Main, via, op)

Spec == Init /\ [][Next]_vars

\* Several threads constructing and finishing operators at the same time,
\* each inside or outside a runtime of its own, contending for RUNTIME.
NextRuntime ==
    \/ \E t \in Threads : AsyncEnter(t)
    \/ \E t \in Threads : AsyncExit(t)
    \/ \E t \in Threads, B \in enabled, m \in Maps : New(t, B, m)
    \/ \E t \in Threads, B \in enabled, m \in Maps : FromMap(t, B, m)
    \/ \E t \in Threads, s \in Schemes, m \in Maps : ViaMap(t, s, m)
    \/ \E t \in Threads : Layer(t, "L1")
    \/ \E t \in Threads : Finish(t)
    \/ \E t \in Threads : LazyStart(t)
    \/ \E t \in Threads : LazyDone(t)
    \/ \E t \in Threads : LazyGet(t)
    \/ \E t \in Threads : LazyPoisoned(t)
    \/ \E t \in Threads : FinishEnd(t)
    \/ \E t \in Threads : DynLayer(t, "L1")
    \/ \E t \in Threads : Drop(t)

SpecRuntime == Init /\ [][NextRuntime]_vars

\* ------------------------------------------------------------ properties
\* the operators some thread or the clone kept aside holds
HeldOps ==
    {cur[t] : t \in {u \in Threads : Idle(u) /\ cur[u].kind = "operator"}}
        \cup (IF kept.kind = "operator" THEN {kept} ELSE {})

Range(q) == {q[i] : i \in 1..Len(q)}
NotErase(x) == x # "TypeErase"
Behaviours(stack) == SelectSeq(stack, NotErase)
\* the outermost layer that is not an erasure
Outermost(stack) == Behaviours(stack)[Len(Behaviours(stack))]
\* the part of an operator's stack above its user layers L1..Ln
Outer(o) == SubSeq(o.stack, 3 + Len(o.users), Len(o.stack))

\* C1: the Operator that finish() returns holds, from the inside out, the
\* error-context layer, the completeness layer, the user layers in call
\* order, and then only mandatory layers: a type erasure directly above the
\* last user layer, then the blocking bridge, then logging.
C1_MandatoryLayerOrder ==
    \A o \in HeldOps :
        o.dyn = <<>> =>
            /\ Len(o.stack) >= 3 + Len(o.users)
            /\ SubSeq(o.stack, 1, 2 + Len(o.users)) = <<"ErrorContext", "Complete">> \o o.users
            /\ Outer(o)[1] = "TypeErase"
            /\ Behaviours(Outer(o)) = <<"Blocking", "Logging">>

\* C1 witness: a finished operator with two different user layers
C1_Witness ==
    \E o \in HeldOps :
        o.dyn = <<>> /\ Len(o.users) = 2 /\ o.users[1] # o.users[2]

\* C2: via_map with a scheme that has no compiled-in arm returns a failure
\* of kind Unsupported whose context holds <<"scheme", that scheme>>; no
\* Builder is called, no instance is built, the thread does not panic and
\* does not enter finish.
C2_UnsupportedScheme ==
    [][\A t \in Threads, s \in Schemes \ enabled, m \in Maps :
          ViaMap(t, s, m) =>
              /\ cur'[t].kind = "err"
              /\ cur'[t].ekind = "Unsupported"
              /\ <<"scheme", s>> \in cur'[t].ectx
              /\ ~cur'[t].built
              /\ cur'[t].inst = 0 /\ cur'[t].stack = <<>>
              /\ pc'[t] = "idle"
              /\ UNCHANGED <<RUNTIME, created, store>>]_vars

\* C2 witness: via_map has failed for a scheme that is known but not compiled in
C2_Witness ==
    \E t \in Threads :
        /\ cur[t].kind = "err" /\ cur[t].call = "via_map"
        /\ cur[t].scheme \in Known \ enabled
        /\ cur[t].ekind = "Unsupported"

\* C3: the number of shared runtimes created changes only in a step of a
\* finish() whose thread has no ambient handle, and then from 0 to 1; a
\* finish() without an ambient handle returns with the number at 1; the
\* number never exceeds 1.
C3_RuntimeCreationCount ==
    /\ [](created <= 1)
    /\ [][/\ created' # created =>
                /\ created = 0 /\ created' = 1
                /\ \E t \in Threads :
                      pc[t] = "initing" /\ current[t] = "none" /\ pc'[t] = "entered"
          /\ \A t \in Threads :
                pc[t] = "entered" /\ pc'[t] = "idle" /\ saved[t] = "none" => created' = 1]_vars

\* C3 witness: a finish() under an ambient handle is under way after the
\* shared runtime was created
C3_Witness ==
    \E t \in Threads : pc[t] = "entered" /\ saved[t] = "ambient" /\ created = 1

\* C4: when threads without an ambient handle run finish() at the same
\* time, at most one of them runs the initialiser, at most one runtime is
\* created, and a thread that is about to create the blocking bridge holds
\* the handle of the one, fully initialised, shared runtime.
C4_RaceFreeInit ==
    /\ created <= 1
    /\ Cardinality({t \in Threads : pc[t] = "initing"}) <= 1
    /\ \A t \in Threads :
          pc[t] = "entered" /\ saved[t] = "none" =>
              /\ handle[t] = "shared" /\ current[t] = "shared"
              /\ RUNTIME = "init" /\ created = 1

\* C4 witness: every thread is inside finish() on the shared runtime
C4_Witness ==
    \A t \in Threads : pc[t] = "entered" /\ saved[t] = "none" /\ handle[t] = "shared"

\* C5 as claimed: logging is the outermost behaviour layer of every held
\* operator and observes every operation invoked on it.
C5_LoggingAlwaysOutermost ==
    \A o \in HeldOps :
        /\ Outermost(o.stack) = "Logging"
        /\ \A op \in Ops : "Logging" \in Invoke(o, op, store).seen

\* C5, amended: logging is the outermost behaviour layer of the operator
\* finish() returns and observes every operation on it; after Operator::layer
\* calls the outermost behaviour layer is the last layer so applied, and
\* logging observes an operation exactly when every later layer passes it
\* inward.
C5_LoggingOutermostAtFinish ==
    \A o \in HeldOps :
        /\ o.dyn = <<>> =>
              /\ Outermost(o.stack) = "Logging"
              /\ \A op \in Ops : "Logging" \in Invoke(o, op, store).seen
        /\ o.dyn # <<>> =>
              /\ Outermost(o.stack) = o.dyn[Len(o.dyn)]
              /\ \A op \in Ops :
                    "Logging" \in Invoke(o, op, store).seen <=> "F" \notin Range(o.dyn)

\* C5 witness: an operator with a later layer that passes nothing inward
C5_Witness ==
    \E o \in HeldOps :
        /\ "F" \in Range(o.dyn)
        /\ \A op \in Ops : "Logging" \notin Invoke(o, op, store).seen

\* the outermost failing layer among user layers q (q holds one)
LastFailing(q) == q[CHOOSE i \in 1..Len(q) : q[i] \in Failing /\ \A j \in (i+1)..Len(q) : q[j] \notin Failing]
\* the operation fails at the backend instance itself
BackendFails(o, op) == op = "read" /\ Key \notin store[o.inst]
\* what the error-context layer attaches to a failure passing through it
ErrCtx(op) == {<<"operation", op>>, <<"path", Key>>}

\* C6 as claimed: with a failing layer applied through OperatorBuilder::layer,
\* every operation on the finished operator fails with that layer's kind and
\* the failure's context includes what the error-context layer attached.
C6_FailureCarriesInnerContext ==
    \A o \in HeldOps :
        (o.dyn = <<>> /\ Range(o.users) \cap Failing # {}) =>
            \A op \in Ops :
                LET r == Invoke(o, op, store)
                IN  /\ ~r.ok
                    /\ r.kind = KindOf(LastFailing(o.users))
                    /\ ErrCtx(op) \subseteq r.ctx

\* C6, amended: every operation fails with the failing layer's kind; the
\* failure carries what the error-context layer attached exactly when the
\* call got past every failing layer inward and failed at the backend, the
\* failing layers keeping that failure's context.
C6_FailureKindAndContext ==
    \A o \in HeldOps :
        (o.dyn = <<>> /\ Range(o.users) \cap Failing # {}) =>
            \A op \in Ops :
                LET r == Invoke(o, op, store)
                IN  /\ ~r.ok
                    /\ r.kind = KindOf(LastFailing(o.users))
                    /\ ErrCtx(op) \subseteq r.ctx <=>
                          ("F" \notin Range(o.users) /\ BackendFails(o, op))

\* C6 witness: a finished operator whose only user layer fails every call
\* without calling inward; its failures carry that layer's context alone
C6_Witness ==
    \E o \in HeldOps :
        /\ o.dyn = <<>> /\ o.users = <<"F">>
        /\ \A op \in Ops :
              /\ Invoke(o, op, store).kind = KindOf("F")
              /\ Invoke(o, op, store).ctx = {<<"layer", "F">>}

\* C7 as claimed: a failure of construction is a returned failure value
\* with nothing built around it, and no thread panics in finish().
C7_ConstructionFailuresReturned ==
    \A t \in Threads :
        /\ cur[t].kind = "err" =>
              /\ cur[t].stack = <<>> /\ cur[t].inst = 0 /\ Idle(t)
              /\ cur[t].ekind \in {"ConfigInvalid", "Unsupported"}
        /\ pc[t] # "panicked"

C9_LazyRuntime ==
    [][/\ (RUNTIME = "uninit" /\ RUNTIME' # "uninit") =>
              \E t \in Threads :
                  pc[t] = "force" /\ current[t] = "none" /\ pc'[t] = "initing"
       /\ (RUNTIME # "init" /\ RUNTIME' = "init") =>
              \E t \in Threads :
                  pc[t] = "initing" /\ current[t] = "none" /\ pc'[t] = "entered"
       /\ RUNTIME = "init" => (RUNTIME' = "init" /\ created' = created)]_vars

\* C9 witness: a failed via_map, a finish() under an ambient handle and a
\* later Operator::layer have all happened and RUNTIME is still empty
C9_Witness ==
    /\ RUNTIME = "uninit" /\ created = 0
    /\ \E t, u \in Threads :
          /\ cur[t].kind = "operator" /\ cur[t].users # <<>> /\ cur[t].dyn # <<>>
          /\ cur[u].kind = "err" /\ cur[u].call = "via_map"

\* C10 as claimed: Operator::layer(L) puts an erasure, L and an erasure on
\* top of the stack it is given.
C10_DynamicLayerErasesTwice ==
    [][\A t \in Threads, L \in UserLayers :
          DynLayer(t, L) =>
              cur'[t].stack = cur[t].stack \o <<"TypeErase", L, "TypeErase">>]_vars

\* C10, amended: Operator::layer(L) puts L and one erasure on top of the
\* stack it is given, which already ends in an erasure; the two calls inside
\* finish() do the same with the blocking bridge and logging.
C10_DynamicLayerErasesOnce ==
    [][/\ \A t \in Threads, L \in UserLayers :
              DynLayer(t, L) =>
                  /\ cur'[t].stack = cur[t].stack \o <<L, "TypeErase">>
                  /\ cur[t].stack[Len(cur[t].stack)] = "TypeErase"
                  /\ cur'[t].inst = cur[t].inst
       /\ \A t \in Threads :
              (FinishEnd(t) /\ pc'[t] = "idle") =>
                  cur'[t].stack = cur[t].stack
                      \o <<"Blocking", "TypeErase", "Logging", "TypeErase">>]_vars

\* C10 witness: Operator::layer has been called twice on an operator
C10_Witness ==
    \E o \in HeldOps : Len(o.dyn) = 2 /\ Len(o.stack) = 11 + Len(o.users)

\* the dynamic layers of an operator, each under its own erasure
RECURSIVE Pairs(_)
Pairs(q) == IF q = <<>> THEN <<>> ELSE <<Head(q), "TypeErase">> \o Pairs(Tail(q))
\* how often x occurs in a stack
Count(stack, x) == Cardinality({i \in 1..Len(stack) : stack[i] = x})

\* C11: after any sequence of Operator::layer calls on a finished operator
\* the stack is the finished stack followed by one <<L, erasure>> pair per
\* call, in call order; the error-context and completeness layers occur
\* once each, at the bottom; every call keeps the stack it was given as the
\* inner part, adds one erasure, and leaves a clone taken earlier and every
\* other thread's value as they were.
C11_DynamicLayersKeepInner ==
    /\ [](\A o \in HeldOps :
            LET n == Len(o.stack) - 2 * Len(o.dyn)
            IN  /\ n = 7 + Len(o.users)
                /\ SubSeq(o.stack, n + 1, Len(o.stack)) = Pairs(o.dyn)
                /\ SubSeq(o.stack, 1, 2) = <<"ErrorContext", "Complete">>
                /\ Count(o.stack, "ErrorContext") = 1
                /\ Count(o.stack, "Complete") = 1
                /\ Count(o.stack, "TypeErase") = 3 + Len(o.dyn))
    /\ [][\A t \in Threads, L \in UserLayers :
              DynLayer(t, L) =>
                  /\ SubSeq(cur'[t].stack, 1, Len(cur[t].stack)) = cur[t].stack
                  /\ Len(cur'[t].stack) = Len(cur[t].stack) + 2
                  /\ cur'[t].stack[Len(cur[t].stack) + 1] = L
                  /\ Count(cur'[t].stack, "TypeErase")
                        = Count(cur[t].stack, "TypeErase") + 1
                  /\ kept' = kept
                  /\ \A u \in Threads \ {t} : cur'[u] = cur[u]]_vars

\* C11 witness: a clone was kept aside, then Operator::layer was called
\* twice on the original; the clone has no dynamic layer
C11_Witness ==
    \E t \in kin :
        /\ Idle(t) /\ cur[t].kind = "operator" /\ Len(cur[t].dyn) = 2
        /\ kept.kind = "operator" /\ kept.dyn = <<>>
        /\ kept.inst = cur[t].inst
        /\ Len(kept.stack) = 7 + Len(kept.users)

\* C12: for a scheme whose arm is compiled in and any map, a via_map step
\* ends where from_map::<B> for that scheme's Builder B followed at once by
\* finish() ends.  When B's build fails the thread holds the same failure
\* (kind, context) and nothing else has changed; otherwise it holds
\* B's builder with no user layer, erased, on a fresh empty instance, and
\* stands at the same point of finish() with the same handles, the shared
\* runtime untouched by the step itself.  Inside that finish() the builder
\* is the one OperatorBuilder::new makes, erased, with no user layer.
C12_ViaMapIsFromMapThenFinish ==
    /\ [][\A t \in Threads, s \in enabled, m \in Maps :
              ViaMap(t, s, m) =>
                  LET b == Operator_from_map(s, m, Fresh)
                  IN  /\ UNCHANGED <<RUNTIME, created>>
                      /\ IF b.kind = "err"
                         THEN /\ cur'[t].kind = "err"
                              /\ cur'[t].ekind = b.ekind
                              /\ cur'[t].ectx = b.ectx
                              /\ cur'[t].built = b.built
                              /\ cur'[t].stack = <<>> /\ cur'[t].inst = 0
                              /\ UNCHANGED <<pc, current, handle, saved, store>>
                         ELSE /\ cur'[t] = [FinishErase(b) EXCEPT !.call = "via_map"]
                              /\ cur'[t].users = <<>>
                              /\ store' = [store EXCEPT ![b.inst] = {}]
                              /\ IF NeedsShared(current[t])
                                 THEN /\ pc'[t] = "force"
                                      /\ UNCHANGED <<current, handle, saved>>
                                 ELSE /\ pc'[t] = "entered"
                                      /\ handle'[t] = current[t]
                                      /\ saved'[t] = current[t]
                                      /\ current' = current]_vars
    /\ [](\A t \in Threads :
            (cur[t].kind = "builder" /\ cur[t].call = "via_map") =>
                /\ pc[t] \in {"force", "initing", "entered"}
                /\ cur[t].users = <<>>
                /\ cur[t].stack = FinishErase(OperatorBuilder_new(cur[t].inst)).stack)

\* C12 witness: via_map for a compiled-in scheme stands inside finish(),
\* at the creation of the blocking bridge, with a builder that has no user
\* layer; an earlier via_map for a compiled-in scheme and another map has
\* returned the failure of that scheme's Builder to another thread
C12_Witness ==
    \E t, u \in Threads :
        /\ pc[t] = "entered" /\ cur[t].kind = "builder"
        /\ cur[t].call = "via_map"
        /\ cur[t].stack = <<"ErrorContext", "Complete", "TypeErase">>
        /\ cur[u].kind = "err" /\ cur[u].call = "via_map"
        /\ cur[u].scheme \in enabled /\ cur[u].ekind = "ConfigInvalid"

\* C13: whenever finish() stands at BlockingLayer::create(), with or without
\* an ambient handle, the thread has a current handle and it is the handle
\* finish() resolved: the ambient one if the thread had one when finish()
\* began, the shared runtime, then initialised, if it had none.  So
\* create() does not fail, finish() returns an operator, and the handle the
\* bridge keeps for its synchronous callers is the resolved one.
C13_SchedulerCurrentAtBridge ==
    /\ [](\A t \in Threads :
            pc[t] = "entered" =>
                /\ current[t] # "none"
                /\ current[t] = handle[t]
                /\ handle[t] = (IF saved[t] = "none" THEN "shared" ELSE saved[t])
                /\ handle[t] = "shared" => RUNTIME = "init"
                /\ BlockingCreateOk(current[t]))
    /\ [][\A t \in Threads :
              /\ (pc[t] # "entered" /\ pc'[t] = "entered") =>
                    /\ saved'[t] = current[t]
                    /\ current'[t] = (IF current[t] = "none" THEN "shared" ELSE current[t])
              /\ (pc[t] = "entered" /\ pc'[t] = "entered") =>
                    /\ saved'[t] = saved[t] /\ current'[t] = current[t]
              /\ FinishEnd(t) =>
                    /\ pc'[t] = "idle" /\ cur'[t].kind = "operator"
                    /\ BlockingCreate(current[t])
                          = (IF saved[t] = "none" THEN "shared" ELSE saved[t])]_vars

\* C13 witness: two threads stand at BlockingLayer::create(), one that came
\* without a handle and has entered the shared runtime, one inside its
\* ambient runtime
C13_Witness ==
    \E t, u \in Threads :
        /\ pc[t] = "entered" /\ saved[t] = "none" /\ current[t] = "shared"
        /\ pc[u] = "entered" /\ saved[u] = "ambient" /\ current[u] = "ambient"

\* C14: finish() leaves the thread's current handle as it found it.  What
\* the thread had when finish() began (its current handle, or once the
\* guard exists the handle the guard saved) is the same before and after
\* every step from the one that begins finish() to the one that ends it, so
\* at the return the current handle is the one at the call: none stays
\* none, ambient stays ambient.  The shared runtime is current only while
\* the guard lives, on a thread that came without a handle.
C14_AmbientStateRestored ==
    /\ [](\A t \in Threads :
            /\ pc[t] \in {"idle", "panicked"} => current[t] \in {"none", "ambient"}
            /\ current[t] = "shared" => (pc[t] = "entered" /\ saved[t] = "none"))
    /\ [][\A t \in Threads :
              /\ (pc[t] # "idle" \/ pc'[t] # "idle") =>
                    (IF pc'[t] = "entered" THEN saved'[t] ELSE current'[t])
                        = (IF pc[t] = "entered" THEN saved[t] ELSE current[t])
              /\ (FinishEnd(t) /\ pc'[t] = "idle") => current'[t] = saved[t]]_vars

\* C14 witness: the shared runtime exists, so a finish() without an ambient
\* handle has entered it; both threads hold finished operators, one with no
\* current handle and one inside its ambient runtime
C14_Witness ==
    /\ RUNTIME = "init" /\ created = 1
    /\ \E t, u \in Threads :
          /\ Idle(t) /\ cur[t].kind = "operator" /\ current[t] = "none"
          /\ Idle(u) /\ cur[u].kind = "operator" /\ current[u] = "ambient"

====
